---- MODULE Spec2Model ----
(***************************************************************************)
(* k2sup join: the join orchestrator (cmd/join.go, MakeJoin.RunE,          *)
(* setupAdditionalServer, setupAgent) and the ssh operator it drives       *)
(* (pkg/operator: SSHOperator.Close, CopySCP, ExecuteStdio).               *)
(*                                                                         *)
(* Spec      one run of `k2sup join`, from flag validation to return.      *)
(* ExecSpec  one call of SSHOperator.ExecuteStdio with its two drain       *)
(*           goroutines and the remote process, under fair scheduling.     *)
(***************************************************************************)
EXTENDS Integers, Sequences, FiniteSets, TLC

VARIABLES
    in,             \* the flags of the run (read once, never written)
    pc,             \* <<where, at>>: position of the single orchestrator thread
    sess,           \* per host: the SSHOperator's connection
    keyRes,         \* per host: the resource behind closeSSHAgent (loadPublickey)
    initialSSHErr,  \* the local of the same name
    deferRun,       \* deferred calls of RunE, in registration order
    deferSetup,     \* deferred calls of setupAgent / setupAdditionalServer
    res,            \* RunE's res (res, err := sshOperator.Execute(getTokenCommand))
    setupRes,       \* the setup function's res (the install command's result)
    ret,            \* the error being returned (<<>> is nil)
    inflight,       \* remote commands issued and not yet exited
    log,            \* every operation against the outside world, in order
    issued,         \* text of every remote command issued, in order
    ex              \* state of one ExecuteStdio call (ExecSpec)

ovars == <<in, pc, sess, keyRes, initialSSHErr, deferRun, deferSetup, res, setupRes, ret,
           inflight, log, issued>>
vars == <<in, pc, sess, keyRes, initialSSHErr, deferRun, deferSetup, res, setupRes, ret,
          inflight, log, issued, ex>>

(***************************************************************************)
(* Errors: a chain of layers, outermost first; <<>> is nil.                *)
(***************************************************************************)
NoErr == <<>>

Layer(msg, args) == [msg |-> msg, args |-> args]

\* errors.New / an error coming out of a library call
NewErr(msg) == <<Layer(msg, <<>>)>>

\* errors.Wrap / errors.Wrapf: a new outer layer over the cause, with the
\* format's arguments
Wrapf(e, msg, args) == <<Layer(msg, args)>> \o e

Cause(e) == Tail(e)

(***************************************************************************)
(* Flags                                                                   *)
(***************************************************************************)
Hosts == {"source", "target"}

GOOSes == {"linux", "windows"}

Versions == {"", "v1.21.5+rke2r2"}

Channels == {"", "stable"}

LocalFiles == {"", "./local.yaml"}

Inputs ==
    [goos : GOOSes, server : BOOLEAN, useSudo : BOOLEAN,
     rke2Version : Versions, rke2Channel : Channels,
     configFile : LocalFiles, registriesFile : LocalFiles,
     serverHost : {"10.0.0.1"}, host : {"10.0.0.2"},
     serverPort : {"2222"}, port : {"22"},
     serverUser : {"rancher"}, user : {"root"},
     sshKeyPath : {"/home/u/.ssh/id_rsa"}]

\* sudoPrefix := ""; if useSudo { sudoPrefix = "sudo " }
sudoPrefix == IF in.useSudo THEN "sudo " ELSE ""

\* address := fmt.Sprintf("%s:%d", host, port), in RunE and in both setup functions
Address(h) ==
    IF h = "source" THEN in.serverHost \o ":" \o in.serverPort
    ELSE in.host \o ":" \o in.port

(***************************************************************************)
(* The log                                                                 *)
(***************************************************************************)
Ev(op, h, arg, ok, why) == [op |-> op, host |-> h, arg |-> arg, ok |-> ok, why |-> why]

(***************************************************************************)
(* Sessions, the key resource, and deferred calls                          *)
(***************************************************************************)
NoSession == [open |-> FALSE, auth |-> "none", opens |-> 0, closes |-> 0]

NoKey == [open |-> FALSE, loads |-> 0, closes |-> 0]

\* operator.NewSSHOperator succeeded: ssh.Dial returned a connection
Opened(s, auth) == [s EXCEPT !.open = TRUE, !.auth = auth, !.opens = @ + 1]

\* The world an unwinding return acts on
World(s, k, l) == [sess |-> s, keyRes |-> k, log |-> l]

\* SSHOperator.Close: s.conn.Close(); the error of closing a closed
\* connection is returned to a caller that drops it
CloseSession(w, h) ==
    [w EXCEPT !.sess[h].open = FALSE,
              !.sess[h].closes = @ + 1,
              !.log = Append(@, Ev("close", h, "session", w.sess[h].open, ""))]

\* closeSSHAgent(), the closer loadPublickey returned
CloseKey(w, h) ==
    [w EXCEPT !.keyRes[h].open = FALSE,
              !.keyRes[h].closes = @ + 1,
              !.log = Append(@, Ev("close", h, "key", w.keyRes[h].open, ""))]

\* f.Close() of a local file opened for upload
CloseFile(w, which) ==
    [w EXCEPT !.log = Append(@, Ev("fclose", "local", which, TRUE, ""))]

Deferred(call, h) == [call |-> call, h |-> h]

CallDeferred(d, w) ==
    CASE d.call = "Close" -> CloseSession(w, d.h)
      [] d.call = "closeSSHAgent" -> CloseKey(w, d.h)
      [] d.call = "fClose" -> CloseFile(w, d.h)

\* A return runs the frame's deferred calls, last registered first
RECURSIVE RunDefers(_, _)
RunDefers(ds, w) ==
    IF ds = <<>> THEN w
    ELSE RunDefers(SubSeq(ds, 1, Len(ds) - 1), CallDeferred(ds[Len(ds)], w))

\* `defer` in RunE (source) or in the setup function (target)
DeferIn(h, frame, stack, d) == IF h = frame THEN Append(stack, d) ELSE stack

\* the position a `return err` of the connection code leads to
ReturnOf(h) == IF h = "source" THEN <<"run", "return">> ELSE <<"target", "return">>

(***************************************************************************)
(* Opening a connection: RunE 640-690, setupAdditionalServer 754-805,      *)
(* setupAgent 869-916. The three copies differ in the user and in the      *)
(* message of the dial error.                                              *)
(***************************************************************************)
\* Mutant: the private key is tried whatever the agent attempt gave
AlwaysFallback(e) == TRUE

\* if initialSSHErr != nil { ... private key ... }
NeedKeyFallback(e) == e # NoErr

\* Mutant: only an unsupported agent falls through; a failed one returns
AfterAgentFailFast(h, e) ==
    IF e = NoErr THEN <<h, "deferClose">>
    ELSE IF e = NewErr("ssh-agent unsupported on windows") THEN <<h, "loadKey">>
    ELSE IF h = "source" THEN <<"run", "return">> ELSE <<"target", "return">>

\* where the agent attempt leaves the thread
AfterAgent(h, e) == IF NeedKeyFallback(e) THEN <<h, "loadKey">> ELSE <<h, "deferClose">>

\* Mutant: the dial error is returned as it came
ConnectErrBare(h, e) == e

\* the message and arguments of the dial error of the private-key attempt:
\* RunE for the source, the setup function of the role for the target
ConnectErrOf(server, h, e) ==
    IF h = "source"
    THEN Wrapf(e, "unable to connect to (server) %s over ssh", <<Address(h)>>)
    ELSE IF server
         THEN Wrapf(e, "unable to connect to %s over ssh as %s", <<Address(h), in.user>>)
         ELSE Wrapf(e, "unable to connect to %s over ssh", <<Address(h)>>)

ConnectErr(h, e) == ConnectErrOf(in.server, h, e)

\* the error of a failed loadPublickey
KeyLoadErr(e) == Wrapf(e, "unable to load the ssh key with path %q", <<in.sshKeyPath>>)

\* runtime.GOOS != "windows": sshAgentOnly(); else the agent is unsupported
AgentOnly(h) ==
    /\ pc = <<h, "agentOnly">>
    /\ IF in.goos # "windows"
       THEN \E ok \in BOOLEAN :
              LET e == IF ok THEN NoErr ELSE NewErr("ssh-agent: no agent") IN
              /\ log' = Append(log, Ev("sshAgentOnly", h, "agent", ok, ""))
              /\ initialSSHErr' = e
              /\ pc' = IF ok THEN <<h, "agentDial">> ELSE AfterAgent(h, e)
       ELSE LET e == NewErr("ssh-agent unsupported on windows") IN
            /\ log' = Append(log, Ev("agentUnsupported", h, "agent", FALSE, in.goos))
            /\ initialSSHErr' = e
            /\ pc' = AfterAgent(h, e)
    /\ UNCHANGED <<in, sess, keyRes, deferRun, deferSetup, res, setupRes, ret, inflight, issued, ex>>

\* sshOperator, initialSSHErr = operator.NewSSHOperator(address, agent config)
AgentDial(h) ==
    /\ pc = <<h, "agentDial">>
    /\ \E ok \in BOOLEAN :
         LET e == IF ok THEN NoErr ELSE NewErr("ssh: handshake failed") IN
         /\ log' = Append(log, Ev("dial", h, "agent", ok, Address(h)))
         /\ initialSSHErr' = e
         /\ sess' = IF ok THEN [sess EXCEPT ![h] = Opened(@, "agent")] ELSE sess
         /\ pc' = AfterAgent(h, e)
    /\ UNCHANGED <<in, keyRes, deferRun, deferSetup, res, setupRes, ret, inflight, issued, ex>>

\* publicKeyFileAuth, closeSSHAgent, err = loadPublickey(sshKeyPath);
\* defer closeSSHAgent()
LoadKey(h) ==
    /\ pc = <<h, "loadKey">>
    /\ \E ok \in BOOLEAN :
         /\ log' = Append(log, Ev("loadkey", h, "key", ok, in.sshKeyPath))
         /\ IF ok
            THEN /\ keyRes' = [keyRes EXCEPT ![h].open = TRUE, ![h].loads = @ + 1]
                 /\ deferRun' = DeferIn(h, "source", deferRun, Deferred("closeSSHAgent", h))
                 /\ deferSetup' = DeferIn(h, "target", deferSetup, Deferred("closeSSHAgent", h))
                 /\ pc' = <<h, "keyDial">>
                 /\ ret' = ret
            ELSE /\ ret' = KeyLoadErr(NewErr("ssh: cannot read or parse key"))
                 /\ pc' = ReturnOf(h)
                 /\ UNCHANGED <<keyRes, deferRun, deferSetup>>
    /\ UNCHANGED <<in, sess, initialSSHErr, res, setupRes, inflight, issued, ex>>

\* sshOperator, err = operator.NewSSHOperator(address, key config)
KeyDial(h) ==
    /\ pc = <<h, "keyDial">>
    /\ \E ok \in BOOLEAN :
         /\ log' = Append(log, Ev("dial", h, "key", ok, Address(h)))
         /\ IF ok
            THEN /\ sess' = [sess EXCEPT ![h] = Opened(@, "key")]
                 /\ pc' = <<h, "deferClose">>
                 /\ ret' = ret
            ELSE /\ ret' = ConnectErr(h, NewErr("ssh: handshake failed"))
                 /\ pc' = ReturnOf(h)
                 /\ sess' = sess
    /\ UNCHANGED <<in, keyRes, initialSSHErr, deferRun, deferSetup, res, setupRes, inflight,
                   issued, ex>>

\* the first command of each phase
FirstCommand(h) == IF h = "source" THEN "getToken" ELSE "mkdir"

\* defer sshOperator.Close()
DeferClose(h) ==
    /\ pc = <<h, "deferClose">>
    /\ deferRun' = DeferIn(h, "source", deferRun, Deferred("Close", h))
    /\ deferSetup' = DeferIn(h, "target", deferSetup, Deferred("Close", h))
    /\ pc' = <<h, FirstCommand(h)>>
    /\ UNCHANGED <<in, sess, keyRes, initialSSHErr, res, setupRes, ret, inflight, log, issued, ex>>

(***************************************************************************)
(* Text: a string is the sequence of its pieces; empty pieces vanish.      *)
(***************************************************************************)
Str(pieces) == SelectSeq(pieces, LAMBDA t : t # "")

WhiteSpace == {" ", "\n", "\t"}

\* strings.TrimSpace
RECURSIVE TrimLeft(_)
TrimLeft(t) == IF t # <<>> /\ Head(t) \in WhiteSpace THEN TrimLeft(Tail(t)) ELSE t

RECURSIVE TrimRight(_)
TrimRight(t) ==
    IF t # <<>> /\ t[Len(t)] \in WhiteSpace THEN TrimRight(SubSeq(t, 1, Len(t) - 1)) ELSE t

TrimSpace(t) == TrimRight(TrimLeft(t))

\* package-level names of cmd that the commands are built from
rke2ConfigPath == "/etc/rancher/rke2/"

rke2ConfigFile == "/etc/rancher/rke2/config.yaml"

containerdRegistriesFile == "/etc/rancher/rke2/registries.yaml"

getScript == "curl -sfL https://get.rke2.io"

\* Mutant: the channel is used whenever one is given
createVersionStrChannelFirst(rke2Version, Channel) ==
    IF Len(Channel) > 0
    THEN Str(<<"INSTALL_RKE2_CHANNEL='", Channel, "'">>)
    ELSE Str(<<"INSTALL_RKE2_VERSION='", rke2Version, "'">>)

createVersionStr(rke2Version, Channel) ==
    IF Len(rke2Version) > 0
    THEN Str(<<"INSTALL_RKE2_VERSION='", rke2Version, "'">>)
    ELSE Str(<<"INSTALL_RKE2_CHANNEL='", Channel, "'">>)

makeConfig(server, token) ==
    Str(<<"server: https://", server, ":9345", " ", "\n", "token: ">> \o token \o <<"\n">>)

\* getTokenCommand
getTokenCommand == Str(<<sudoPrefix, "cat /var/lib/rancher/rke2/server/node-token", "\n">>)

\* Mutant: the directory is made with sudo whatever was asked
mkdirCommandSudo == Str(<<"sudo ", " mkdir -p ", rke2ConfigPath>>)

mkdirCommand == Str(<<sudoPrefix, " mkdir -p ", rke2ConfigPath>>)

\* installRKE2Exec of setupAdditionalServer (server) and of setupAgent
installRKE2ExecOf(server) ==
    createVersionStr(in.rke2Version, in.rke2Channel)
      \o (IF server THEN <<" INSTALL_RKE2_TYPE='server'", " sh -s -">> ELSE <<" sh -s -">>)

installRKE2Exec == installRKE2ExecOf(in.server)

\* Mutant: tee without -a
populateConfigOverwrite(joinToken) ==
    Str(<<"echo '">> \o makeConfig(in.serverHost, TrimSpace(joinToken))
          \o <<"' | ", sudoPrefix, " tee ", rke2ConfigFile>>)

populateConfig(joinToken) ==
    Str(<<"echo '">> \o makeConfig(in.serverHost, TrimSpace(joinToken))
          \o <<"' | ", sudoPrefix, " tee -a ", rke2ConfigFile>>)

\* installAgentServerCommand (server), installAgentCommand
installCommandOf(server) == Str(<<getScript, " | ", sudoPrefix, " ">> \o installRKE2ExecOf(server))

installCommand == Str(<<getScript, " | ", sudoPrefix, " ">> \o installRKE2Exec)

\* Mutant: the agent unit is enabled whatever the role
ensureSystemdcommandAgentUnit ==
    Str(<<sudoPrefix, " systemctl enable --no-block --now ", "rke2-agent">>)

\* ensureSystemdcommand of setupAdditionalServer (server) and of setupAgent
ensureSystemdcommandOf(server) ==
    Str(<<sudoPrefix, " systemctl enable --no-block --now ",
          IF server THEN "rke2-server" ELSE "rke2-agent">>)

ensureSystemdcommand == ensureSystemdcommandOf(in.server)

CommandText(kind) ==
    CASE kind = "getToken" -> getTokenCommand
      [] kind = "mkdir" -> mkdirCommand
      [] kind = "populateConfig" -> populateConfig(res.StdOut)
      [] kind = "install" -> installCommand
      [] kind = "systemd" -> ensureSystemdcommand

(***************************************************************************)
(* What a call of Execute hands back (ExecSpec has the call itself)        *)
(***************************************************************************)
NoRes == [StdOut |-> <<>>, StdErr |-> <<>>]

\* what the remote command wrote when it exited 0: quiet, or with text on
\* standard-error (and, for the token, white space around it)
Captures(kind) ==
    IF kind = "getToken"
    THEN {[StdOut |-> <<"K10::server:secret", "\n">>, StdErr |-> <<>>],
          [StdOut |-> <<" ", "K10::server:secret", " ", "\n">>,
           StdErr |-> <<"warning: deprecated", "\n">>]}
    ELSE {[StdOut |-> <<"done", "\n">>, StdErr |-> <<>>],
          [StdOut |-> <<"done", "\n">>, StdErr |-> <<"warning: deprecated", "\n">>]}

\* ExecuteStdio returns (CommandRes{}, err) or (CommandRes{StdErr, StdOut}, nil)
ExecResults(kind) ==
    {[err |-> NewErr("Process exited with status 1"), res |-> NoRes]}
      \cup {[err |-> NoErr, res |-> c] : c \in Captures(kind)}

(***************************************************************************)
(* The caller's handling of each command's result: the position it goes    *)
(* to, the error it returns, the result it keeps.                          *)
(***************************************************************************)
Go(to, e, r, sr) == [pc |-> to, ret |-> e, res |-> r, setupRes |-> sr]

\* Mutant: the error of the token read is not tested
OnGetTokenIgnoreErr(r) == Go(<<"source", "disconnect">>, ret, r.res, setupRes)

\* RunE 697-705
OnGetToken(r) ==
    IF r.err # NoErr
    THEN Go(<<"run", "return">>, Wrapf(r.err, "unable to get join-token from server", <<>>),
            r.res, setupRes)
    ELSE Go(<<"source", "disconnect">>, ret, r.res, setupRes)

\* if configFile != "" / if registriesFile != ""
AfterConfig ==
    IF in.registriesFile # "" THEN <<"target", "openRegistries">>
    ELSE <<"target", "populateConfig">>

AfterMkdir ==
    IF in.configFile # "" THEN <<"target", "openConfig">> ELSE AfterConfig

\* setupAdditionalServer 807, setupAgent 918: the result is dropped
OnMkdir(r) == Go(AfterMkdir, ret, res, setupRes)

\* Mutant: a server run enables the service without installing
OnPopulateConfigServerSkipsInstall(r) ==
    IF r.err # NoErr THEN Go(<<"target", "return">>, r.err, res, setupRes)
    ELSE Go(<<"target", IF in.server THEN "systemd" ELSE "install">>, ret, res, setupRes)

\* Mutant: the service is enabled right after the configuration is written
OnPopulateConfigSkipInstall(r) ==
    IF r.err # NoErr THEN Go(<<"target", "return">>, r.err, res, setupRes)
    ELSE Go(<<"target", "systemd">>, ret, res, setupRes)

\* 839-842, 952-955
OnPopulateConfig(r) ==
    IF r.err # NoErr THEN Go(<<"target", "return">>, r.err, res, setupRes)
    ELSE Go(<<"target", "install">>, ret, res, setupRes)

\* a capture with text on standard-error
Warned(r) == r.StdErr # <<>>

\* Mutant: text on standard-error of the install is taken for a failure
OnInstallStderrFails(r) ==
    IF r.err # NoErr \/ Warned(r.res)
    THEN Go(<<"target", "return">>, Wrapf(r.err, "unable to setup agent", <<>>), res, r.res)
    ELSE Go(<<"target", "systemd">>, ret, res, r.res)

\* 844-847, 957-961
OnInstall(r) ==
    IF r.err # NoErr
    THEN Go(<<"target", "return">>, Wrapf(r.err, "unable to setup agent", <<>>), res, r.res)
    ELSE Go(<<"target", "systemd">>, ret, res, r.res)

\* 850-862, 964-976
OnSystemd(r) ==
    IF r.err # NoErr THEN Go(<<"target", "return">>, r.err, res, setupRes)
    ELSE Go(<<"target", "return">>, NoErr, res, setupRes)

OnExec(kind, r) ==
    CASE kind = "getToken" -> OnGetToken(r)
      [] kind = "mkdir" -> OnMkdir(r)
      [] kind = "populateConfig" -> OnPopulateConfig(r)
      [] kind = "install" -> OnInstall(r)
      [] kind = "systemd" -> OnSystemd(r)

Kinds(h) == IF h = "source" THEN {"getToken"} ELSE {"mkdir", "populateConfig", "install", "systemd"}

\* sshOperator.Execute(command): the command is sent
ExecIssue(h, kind) ==
    /\ pc = <<h, kind>>
    /\ inflight = 0
    /\ inflight' = inflight + 1
    /\ log' = Append(log, Ev("exec", h, kind, TRUE, ""))
    /\ issued' = Append(issued, [host |-> h, kind |-> kind, text |-> CommandText(kind)])
    /\ UNCHANGED <<in, pc, sess, keyRes, initialSSHErr, deferRun, deferSetup, res, setupRes,
                   ret, ex>>

\* ... and Execute returns once the command has exited
ExecReturn(h, kind) ==
    /\ pc = <<h, kind>>
    /\ inflight = 1
    /\ \E r \in ExecResults(kind) :
         LET go == OnExec(kind, r) IN
         /\ log' = Append(log, Ev("exit", h, kind, r.err = NoErr, ""))
         /\ pc' = go.pc
         /\ ret' = go.ret
         /\ res' = go.res
         /\ setupRes' = go.setupRes
    /\ inflight' = inflight - 1
    /\ UNCHANGED <<in, sess, keyRes, initialSSHErr, deferRun, deferSetup, issued, ex>>

(***************************************************************************)
(* Uploads: setupAdditionalServer 809-825, setupAgent 920-936, and         *)
(* SSHOperator.CopySCP                                                     *)
(***************************************************************************)
UploadFile(which) == IF which = "Config" THEN in.configFile ELSE in.registriesFile

UploadTarget(which) == IF which = "Config" THEN rke2ConfigFile ELSE containerdRegistriesFile

AfterUpload(which) == IF which = "Config" THEN AfterConfig ELSE <<"target", "populateConfig">>

\* f, err := os.Open(file); if err != nil { return errors.Wrapf(...) }; defer f.Close()
UploadOpen(which) ==
    /\ pc = <<"target", "open" \o which>>
    /\ \E ok \in BOOLEAN :
         /\ log' = Append(log, Ev("open", "target", which, ok, UploadFile(which)))
         /\ IF ok
            THEN /\ deferSetup' = Append(deferSetup, Deferred("fClose", which))
                 /\ pc' = <<"target", "copy" \o which>>
                 /\ ret' = ret
            ELSE /\ ret' = Wrapf(NewErr("open: no such file or directory"),
                                 "unable to open specified config file %q",
                                 <<UploadFile(which)>>)
                 /\ pc' = <<"target", "return">>
                 /\ deferSetup' = deferSetup
    /\ UNCHANGED <<in, sess, keyRes, initialSSHErr, deferRun, res, setupRes, inflight,
                   issued, ex>>

\* What can happen inside CopySCP: the scp client cannot be made (printed),
\* os.Open(source) fails (dropped), client.CopyFile fails (assigned, dropped)
CopyOutcomes == {"ok", "no scp client", "cannot open local file", "transfer rejected"}

\* What CopySCP hands its caller for an outcome: it has no result
CopySCP(outcome) == NoErr

\* the caller after sshOperator.CopySCP(f, target): a statement, nothing to test
OnCopy(which, e) ==
    IF e # NoErr THEN [pc |-> <<"target", "return">>, ret |-> e]
    ELSE [pc |-> AfterUpload(which), ret |-> ret]

UploadCopy(which) ==
    /\ pc = <<"target", "copy" \o which>>
    /\ \E outcome \in CopyOutcomes :
         LET go == OnCopy(which, CopySCP(outcome)) IN
         /\ log' = Append(log, Ev("copy", "target", UploadTarget(which), outcome = "ok", outcome))
         /\ pc' = go.pc
         /\ ret' = go.ret
    /\ UNCHANGED <<in, sess, keyRes, initialSSHErr, deferRun, deferSetup, res, setupRes,
                   inflight, issued, ex>>

(***************************************************************************)
(* RunE: validation, the end of the source phase, the returns              *)
(***************************************************************************)
\* Mutant: the selectors are not tested
ValidateNothing ==
    /\ pc = <<"run", "validate">>
    /\ ret' = ret
    /\ pc' = <<"source", "agentOnly">>
    /\ UNCHANGED <<in, sess, keyRes, initialSSHErr, deferRun, deferSetup, res, setupRes,
                   inflight, log, issued, ex>>

\* if len(rke2Version) == 0 && len(rke2Channel) == 0 { return fmt.Errorf(...) }
Validate ==
    /\ pc = <<"run", "validate">>
    /\ IF Len(in.rke2Version) = 0 /\ Len(in.rke2Channel) = 0
       THEN /\ ret' = NewErr("give a value for --version or --channel")
            /\ pc' = <<"run", "return">>
       ELSE /\ ret' = ret
            /\ pc' = <<"source", "agentOnly">>
    /\ UNCHANGED <<in, sess, keyRes, initialSSHErr, deferRun, deferSetup, res, setupRes,
                   inflight, log, issued, ex>>

\* Mutant: the source is left to the deferred calls
DisconnectSkipped(w) == w

\* if closeSSHAgent != nil { closeSSHAgent() }; sshOperator.Close()
DisconnectSource(w) ==
    CloseSession(IF w.keyRes["source"].loads > 0 THEN CloseKey(w, "source") ELSE w, "source")

\* 707-719: release the source, then call the setup function of the role
Disconnect ==
    /\ pc = <<"source", "disconnect">>
    /\ LET w == DisconnectSource(World(sess, keyRes, log)) IN
         /\ sess' = w.sess
         /\ keyRes' = w.keyRes
         /\ log' = w.log
    /\ pc' = <<"target", "agentOnly">>
    /\ UNCHANGED <<in, initialSSHErr, deferRun, deferSetup, res, setupRes, ret, inflight,
                   issued, ex>>

\* a return of setupAgent / setupAdditionalServer: its deferred calls run,
\* and RunE returns boostrapErr
ReturnSetup ==
    /\ pc = <<"target", "return">>
    /\ LET w == RunDefers(deferSetup, World(sess, keyRes, log)) IN
         /\ sess' = w.sess
         /\ keyRes' = w.keyRes
         /\ log' = w.log
    /\ deferSetup' = <<>>
    /\ pc' = <<"run", "return">>
    /\ UNCHANGED <<in, initialSSHErr, deferRun, res, setupRes, ret, inflight, issued, ex>>

\* Mutant: RunE returns the error of a deferred Close
ReturnRunECloseErr ==
    /\ pc = <<"run", "return">>
    /\ LET w == RunDefers(deferRun, World(sess, keyRes, log)) IN
         /\ sess' = w.sess
         /\ keyRes' = w.keyRes
         /\ log' = w.log
         /\ ret' = IF \E i \in (Len(log) + 1)..Len(w.log) :
                         w.log[i].arg = "session" /\ ~w.log[i].ok
                    THEN NewErr("use of closed network connection")
                    ELSE ret
    /\ deferRun' = <<>>
    /\ pc' = <<"run", "done">>
    /\ UNCHANGED <<in, initialSSHErr, deferSetup, res, setupRes, inflight, issued, ex>>

\* a return of RunE: its deferred calls run
ReturnRunE ==
    /\ pc = <<"run", "return">>
    /\ LET w == RunDefers(deferRun, World(sess, keyRes, log)) IN
         /\ sess' = w.sess
         /\ keyRes' = w.keyRes
         /\ log' = w.log
    /\ deferRun' = <<>>
    /\ pc' = <<"run", "done">>
    /\ UNCHANGED <<in, initialSSHErr, deferSetup, res, setupRes, ret, inflight, issued, ex>>

\* no call of ExecuteStdio is followed step by step in Spec
ExIdle == [pc |-> "idle"]

Init ==
    /\ in \in Inputs
    /\ pc = <<"run", "validate">>
    /\ sess = [h \in Hosts |-> NoSession]
    /\ keyRes = [h \in Hosts |-> NoKey]
    /\ initialSSHErr = NoErr
    /\ deferRun = <<>>
    /\ deferSetup = <<>>
    /\ res = NoRes
    /\ setupRes = NoRes
    /\ ret = NoErr
    /\ inflight = 0
    /\ log = <<>>
    /\ issued = <<>>
    /\ ex = ExIdle

Next ==
    \/ Validate
    \/ \E h \in Hosts : AgentOnly(h)
    \/ \E h \in Hosts : AgentDial(h)
    \/ \E h \in Hosts : LoadKey(h)
    \/ \E h \in Hosts : KeyDial(h)
    \/ \E h \in Hosts : DeferClose(h)
    \/ \E h \in Hosts : \E kind \in Kinds(h) : ExecIssue(h, kind)
    \/ \E h \in Hosts : \E kind \in Kinds(h) : ExecReturn(h, kind)
    \/ \E which \in {"Config", "Registries"} : UploadOpen(which)
    \/ \E which \in {"Config", "Registries"} : UploadCopy(which)
    \/ Disconnect
    \/ ReturnSetup
    \/ ReturnRunE

Spec == Init /\ [][Next]_vars

(***************************************************************************)
(* Properties of a run                                                     *)
(***************************************************************************)
Done == pc = <<"run", "done">>

Range(f) == {f[i] : i \in DOMAIN f}

Happened(e) == \E i \in DOMAIN log : log[i] = e

\* C1: the source session, and the key resource when the private key was
\* used for the source, are closed before any dial to the target; the two
\* sessions are never open together.
C1_SourceClosedBeforeTarget ==
    /\ ~(sess["source"].open /\ sess["target"].open)
    /\ \A i \in DOMAIN log :
         (log[i].op = "dial" /\ log[i].host = "target") =>
           /\ \E j \in 1..(i - 1) : log[j] = Ev("close", "source", "session", TRUE, "")
           /\ (\E j \in 1..(i - 1) : /\ log[j].op = "loadkey"
                                     /\ log[j].host = "source"
                                     /\ log[j].ok)
                => \E j \in 1..(i - 1) : log[j] = Ev("close", "source", "key", TRUE, "")
    /\ pc[1] = "target" => ~sess["source"].open /\ ~keyRes["source"].open

C1_Witness ==
    /\ sess["target"].open
    /\ keyRes["source"].loads = 1
    /\ sess["source"].opens = 1

\* C2 (as claimed): every session that was opened has been closed exactly
\* once when the run is over.
C2_ClosedExactlyOnce ==
    Done => \A h \in Hosts : sess[h].opens > 0 => sess[h].closes = 1

\* The source could not be connected, or the token read failed
SourceFailed ==
    \E i \in DOMAIN log :
      /\ log[i].host = "source"
      /\ ~log[i].ok
      /\ \/ log[i].op = "loadkey"
         \/ log[i].op = "dial" /\ log[i].arg = "key"
         \/ log[i].op = "exit" /\ log[i].arg = "getToken"

\* C3: once the source could not be connected or the token read failed, the
\* run holds an error and nothing is ever done against the target.
C3_SourceFailureAborts ==
    SourceFailed =>
      /\ ret # NoErr
      /\ pc[1] = "run"
      /\ \A i \in DOMAIN log : log[i].host # "target"
      /\ \A i \in DOMAIN issued : issued[i].host # "target"

C3_Witness ==
    /\ Done
    /\ Happened(Ev("exit", "source", "getToken", FALSE, ""))

TargetOpFailed(i) ==
    /\ log[i].host = "target"
    /\ ~log[i].ok
    /\ log[i].op \in {"exit", "copy"}

\* C4 (as claimed): after the first failed remote operation on the target
\* no further remote command is issued, and the run ends with an error.
C4_TerminalOnFirstFailure ==
    \A i \in DOMAIN log :
      TargetOpFailed(i) =>
        /\ \A j \in DOMAIN log : j > i => log[j].op # "exec"
        /\ Done => ret # NoErr

\* C5 (as claimed): an upload that fails because the local file cannot be
\* opened by CopySCP or because the transfer is rejected aborts the run with
\* an error; Write-join-config is never reached.
C5_UploadFailureAborts ==
    \A i \in DOMAIN log :
      (/\ log[i].op = "copy"
       /\ log[i].why \in {"cannot open local file", "transfer rejected"}) =>
        /\ \A j \in DOMAIN log :
             j > i => ~(log[j].op = "exec" /\ log[j].arg = "populateConfig")
        /\ Done => ret # NoErr

\* C6: for each host, once the agent attempt has authenticated, the key file
\* is never loaded and the address is dialled exactly once.
C6_AgentWinsNoKeyAttempt ==
    \A h \in Hosts :
      Happened(Ev("dial", h, "agent", TRUE, Address(h))) =>
        /\ \A i \in DOMAIN log : ~(log[i].op = "loadkey" /\ log[i].host = h)
        /\ Cardinality({i \in DOMAIN log : log[i].op = "dial" /\ log[i].host = h}) = 1
        /\ keyRes[h].loads = 0
        /\ sess[h].auth = "agent"

C6_Witness ==
    /\ Done
    /\ sess["source"].auth = "agent"
    /\ sess["target"].auth = "agent"

\* The agent strategy was unsupported, unavailable or rejected for h
AgentFailed(h) ==
    \E i \in DOMAIN log :
      /\ log[i].host = h
      /\ ~log[i].ok
      /\ \/ log[i].op \in {"sshAgentOnly", "agentUnsupported"}
         \/ log[i].op = "dial" /\ log[i].arg = "agent"

AgentMessages ==
    {"ssh-agent: no agent", "ssh-agent unsupported on windows"}

\* C7: for each host, when the agent strategy is unsupported or fails, the
\* private key is tried next; when the key loads and its dial is accepted
\* the open ends with a session authenticated by the key and no error, and
\* the agent's failure is never what the run returns.
C7_KeyFallbackSucceeds ==
    \A h \in Hosts :
      AgentFailed(h) =>
        /\ \/ pc = <<h, "loadKey">>
           \/ \E i \in DOMAIN log : log[i].op = "loadkey" /\ log[i].host = h
        /\ Happened(Ev("dial", h, "key", TRUE, Address(h))) =>
             /\ sess[h].auth = "key"
             /\ sess[h].opens = 1
             /\ pc = <<h, "deferClose">> => sess[h].open /\ ret = NoErr
        /\ ret # NoErr => /\ ret[1].msg \notin AgentMessages
                          /\ ret # initialSSHErr

C7_Witness ==
    /\ Happened(Ev("dial", "source", "agent", FALSE, Address("source")))
    /\ Happened(Ev("agentUnsupported", "target", "agent", FALSE, "windows"))
        \/ Happened(Ev("sshAgentOnly", "target", "agent", FALSE, ""))
    /\ sess["target"].open
    /\ sess["target"].auth = "key"
    /\ sess["source"].auth = "key"

KeyLoadFailed(h) == Happened(Ev("loadkey", h, "key", FALSE, in.sshKeyPath))

KeyDialFailed(h) == Happened(Ev("dial", h, "key", FALSE, Address(h)))

Observable(e) ==
    \/ e.op = "dial" /\ e.ok
    \/ e.op = "exec"
    \/ e.op = "copy"
    \/ e.op = "close" /\ e.arg = "session" /\ e.ok /\ e.host = "source"

StepName(e) == <<e.op, e.host, IF e.op \in {"exec", "copy"} THEN e.arg ELSE "">>

StepNames(l) == [i \in DOMAIN l |-> StepName(l[i])]

ExpectedSteps ==
    <<<<"dial", "source", "">>, <<"exec", "source", "getToken">>,
      <<"close", "source", "">>, <<"dial", "target", "">>,
      <<"exec", "target", "mkdir">>>>
      \o (IF in.configFile # "" THEN <<<<"copy", "target", rke2ConfigFile>>>> ELSE <<>>)
      \o (IF in.registriesFile # ""
          THEN <<<<"copy", "target", containerdRegistriesFile>>>> ELSE <<>>)
      \o <<<<"exec", "target", "populateConfig">>, <<"exec", "target", "install">>,
           <<"exec", "target", "systemd">>>>

\* C9: a run that succeeds went through connect source, fetch token,
\* disconnect source, connect target, create directory, the uploads asked
\* for, write config, install, activate, in that order and nothing else; a
\* command is issued only when the one before it has exited, so at most one
\* is in flight.
C9_StrictStepOrder ==
    /\ inflight \in {0, 1}
    /\ \A i \in DOMAIN log :
         log[i].op = "exec" =>
           IF i = Len(log) THEN inflight = 1
           ELSE /\ log[i + 1].op = "exit"
                /\ log[i + 1].arg = log[i].arg
                /\ log[i + 1].host = log[i].host
    /\ (inflight = 1) => log[Len(log)].op = "exec"
    /\ (Done /\ ret = NoErr) => StepNames(SelectSeq(log, Observable)) = ExpectedSteps

C9_Witness ==
    /\ Done
    /\ ret = NoErr
    /\ in.configFile # ""
    /\ in.registriesFile # ""
    /\ in.server

(***************************************************************************)
(* SSHOperator.ExecuteStdio: the calling goroutine, the two drain          *)
(* goroutines it starts, and the remote process writing to the two pipes.  *)
(***************************************************************************)
\* bytes one pipe holds before its writer blocks
PipeCap == 2

\* writes of the remote process before it exits
MaxWrites == 4

Fds == {"out", "err"}

\* the library call that fails in this call of ExecuteStdio, if any
Faults == {"none", "NewSession", "StdoutPipe", "StderrPipe", "Run"}

\* what the remote process does: the stream of each byte it writes, in order
Scripts == UNION {[1..n -> Fds] : n \in 0..MaxWrites}

\* the command text handed to ExecuteStdio
ExecCommands == {"sudo cat /var/lib/rancher/rke2/server/node-token\n"}

ExecCalls ==
    [command : ExecCommands, script : Scripts, exit : {0, 1}, stream : BOOLEAN,
     fault : Faults]

ExStart(c) ==
    [pc |-> "NewSession", command |-> c.command, script |-> c.script, exit |-> c.exit,
     stream |-> c.stream,
     fault |-> c.fault,
     proc |-> "idle", pos |-> 1,
     pipe |-> [fd \in Fds |-> <<>>],
     buf |-> [fd \in Fds |-> <<>>],      \* output, errorOutput
     echo |-> [fd \in Fds |-> <<>>],     \* os.Stdout, os.Stderr
     drain |-> [fd \in Fds |-> "none"],
     wg |-> 0,
     closed |-> FALSE,
     res |-> NoRes, err |-> NoErr]

\* return CommandRes{}, err: the error of the library call, as it came
ExecErr(command, e) == e

\* return CommandRes{...}, err; the deferred sess.Close() runs
ExReturn(x, r, e, close) ==
    [x EXCEPT !.pc = "returned", !.res = r, !.err = e, !.closed = close]

\* wg.Add(1); go func() { io.Copy(writer, pipe); wg.Done() }()
ExGo(x, fd) == [x EXCEPT !.drain[fd] = "running", !.wg = @ + 1]

\* sess, err := s.conn.NewSession(); defer sess.Close()
ExNewSession ==
    /\ ex.pc = "NewSession"
    /\ ex' = IF ex.fault = "NewSession"
             THEN ExReturn(ex, NoRes, ExecErr(ex.command, NewErr("ssh: cannot open session")), FALSE)
             ELSE [ex EXCEPT !.pc = "StdoutPipe"]
    /\ UNCHANGED ovars

\* sessStdOut, err := sess.StdoutPipe(); the stdout drain is started
ExStdoutPipe ==
    /\ ex.pc = "StdoutPipe"
    /\ ex' = IF ex.fault = "StdoutPipe"
             THEN ExReturn(ex, NoRes, ExecErr(ex.command, NewErr("ssh: StdoutPipe")), TRUE)
             ELSE [ExGo(ex, "out") EXCEPT !.pc = "StderrPipe"]
    /\ UNCHANGED ovars

\* sessStderr, err := sess.StderrPipe(); the stderr drain is started
ExStderrPipe ==
    /\ ex.pc = "StderrPipe"
    /\ ex' = IF ex.fault = "StderrPipe"
             THEN ExReturn(ex, NoRes, ExecErr(ex.command, NewErr("ssh: StderrPipe")), TRUE)
             ELSE [ExGo(ex, "err") EXCEPT !.pc = "Run"]
    /\ UNCHANGED ovars

\* err = sess.Run(command): the command is started ...
ExRunStart ==
    /\ ex.pc = "Run"
    /\ ex' = IF ex.fault = "Run"
             THEN ExReturn(ex, NoRes, ExecErr(ex.command, NewErr("ssh: cannot start command")), TRUE)
             ELSE [ex EXCEPT !.pc = "RunWait", !.proc = "running"]
    /\ UNCHANGED ovars

\* Mutant: what was drained so far is returned with the error
ExRunWaitKeepsOutput ==
    /\ ex.pc = "RunWait"
    /\ ex.proc = "exited"
    /\ ex' = IF ex.exit # 0
             THEN ExReturn(ex, [StdOut |-> ex.buf["out"], StdErr |-> ex.buf["err"]],
                           ExecErr(ex.command, NewErr("Process exited with status 1")), TRUE)
             ELSE [ex EXCEPT !.pc = "wgWait"]
    /\ UNCHANGED ovars

\* ... and Run returns when the remote process has exited
ExRunWait ==
    /\ ex.pc = "RunWait"
    /\ ex.proc = "exited"
    /\ ex' = IF ex.exit # 0
             THEN ExReturn(ex, NoRes, ExecErr(ex.command, NewErr("Process exited with status 1")), TRUE)
             ELSE [ex EXCEPT !.pc = "wgWait"]
    /\ UNCHANGED ovars

\* Mutant: the buffers are returned without waiting for the drains
ExWgNoWait ==
    /\ ex.pc = "wgWait"
    /\ ex' = ExReturn(ex, [StdOut |-> ex.buf["out"], StdErr |-> ex.buf["err"]], NoErr, TRUE)
    /\ UNCHANGED ovars

\* wg.Wait(); return CommandRes{StdErr: errorOutput.Bytes(), StdOut: output.Bytes()}, nil
ExWgWait ==
    /\ ex.pc = "wgWait"
    /\ ex.wg = 0
    /\ ex' = ExReturn(ex, [StdOut |-> ex.buf["out"], StdErr |-> ex.buf["err"]], NoErr, TRUE)
    /\ UNCHANGED ovars

\* the remote process writes its next byte; it blocks while the pipe is full
ProcWrite ==
    /\ ex.proc = "running"
    /\ ex.pos <= Len(ex.script)
    /\ LET fd == ex.script[ex.pos] IN
         /\ Len(ex.pipe[fd]) < PipeCap
         /\ ex' = [ex EXCEPT !.pipe[fd] = Append(@, ex.pos), !.pos = @ + 1]
    /\ UNCHANGED ovars

\* the remote process exits once it has written everything
ProcExit ==
    /\ ex.proc = "running"
    /\ ex.pos > Len(ex.script)
    /\ ex' = [ex EXCEPT !.proc = "exited"]
    /\ UNCHANGED ovars

\* Mutant: stderr is drained only once stdout has been drained to its end
DrainOneAfterTheOther(fd) ==
    /\ ex.drain[fd] = "running"
    /\ fd = "err" => ex.drain["out"] = "done"

\* the drain goroutine of fd runs from its `go` to its wg.Done()
DrainRuns(fd) == ex.drain[fd] = "running"

\* Mutant: with stream set the bytes go to the local stream only
StdWriterEchoOnly(x, fd, b) ==
    [x EXCEPT !.buf[fd] = IF x.stream THEN @ ELSE Append(@, b),
              !.echo[fd] = IF x.stream THEN Append(@, b) ELSE @]

\* io.MultiWriter(os.Stdout, &output) when stream, else &output
StdWriter(x, fd, b) ==
    [x EXCEPT !.buf[fd] = Append(@, b),
              !.echo[fd] = IF x.stream THEN Append(@, b) ELSE @]

\* io.Copy moves the next byte of the pipe to the writer
DrainCopy(fd) ==
    /\ DrainRuns(fd)
    /\ ex.pipe[fd] # <<>>
    /\ ex' = [StdWriter(ex, fd, Head(ex.pipe[fd])) EXCEPT !.pipe[fd] = Tail(@)]
    /\ UNCHANGED ovars

\* io.Copy returns at the end of the stream (the process has exited and the
\* pipe is empty) or when the session has been closed under it; wg.Done()
DrainEnd(fd) ==
    /\ DrainRuns(fd)
    /\ \/ ex.pipe[fd] = <<>> /\ ex.proc = "exited"
       \/ ex.closed
    /\ ex' = [ex EXCEPT !.drain[fd] = "done", !.wg = @ - 1]
    /\ UNCHANGED ovars

\* the flags of a run that never starts: ExecSpec has only the call
NoRun == [i \in {"goos"} |-> "none"]

ExecInit ==
    /\ \E c \in ExecCalls : ex = ExStart(c)
    /\ in = NoRun
    /\ pc = <<"exec", "call">>
    /\ sess = [h \in Hosts |-> NoSession]
    /\ keyRes = [h \in Hosts |-> NoKey]
    /\ initialSSHErr = NoErr
    /\ deferRun = <<>>
    /\ deferSetup = <<>>
    /\ res = NoRes
    /\ setupRes = NoRes
    /\ ret = NoErr
    /\ inflight = 0
    /\ log = <<>>
    /\ issued = <<>>

ExMain ==
    \/ ExNewSession
    \/ ExStdoutPipe
    \/ ExStderrPipe
    \/ ExRunStart
    \/ ExRunWait
    \/ ExWgWait

Proc == ProcWrite \/ ProcExit

Drain(fd) == DrainCopy(fd) \/ DrainEnd(fd)

ExecNext ==
    \/ ExNewSession
    \/ ExStdoutPipe
    \/ ExStderrPipe
    \/ ExRunStart
    \/ ExRunWait
    \/ ExWgWait
    \/ ProcWrite
    \/ ProcExit
    \/ \E fd \in Fds : DrainCopy(fd)
    \/ \E fd \in Fds : DrainEnd(fd)

\* every goroutine that can run does run, and so does the remote process
ExecFair ==
    /\ WF_vars(ExMain)
    /\ WF_vars(Proc)
    /\ \A fd \in Fds : WF_vars(Drain(fd))

ExecSpec == ExecInit /\ [][ExecNext]_vars /\ ExecFair

Written(script, fd) ==
    SelectSeq([i \in DOMAIN script |-> i], LAMBDA i : script[i] = fd)

C12_ErrorCarriesCommand ==
    (ex.pc = "returned" /\ ex.err # NoErr) =>
      \E i \in DOMAIN ex.err : ex.command \in Range(ex.err[i].args)

(***************************************************************************)
(* Properties of a run, continued                                          *)
(***************************************************************************)
\* the commands whose failure ends the run
EndingKinds == {"getToken", "populateConfig", "install", "systemd"}

\* C13 (as claimed): a failed remote command that ends the run reaches the
\* caller as the executor's error wrapped in a layer of the step's own, the
\* executor's error kept as the cause; never as the bare executor error.
C13_FailureWrappedWithIntent ==
    \A i \in DOMAIN log :
      (log[i].op = "exit" /\ ~log[i].ok /\ log[i].arg \in EndingKinds) =>
        /\ Len(ret) >= 2
        /\ Cause(ret) = NewErr("Process exited with status 1")

(***************************************************************************)
(* A run together with the call under it: Execute is ExecuteStdio(command, *)
(* false), so the program is either in a run, whose remote commands return *)
(* what ExecResults says, or in one call of ExecuteStdio followed step by  *)
(* step.                                                                   *)
(***************************************************************************)
RunOrCallInit == Init \/ ExecInit

RunOrCallNext ==
    \/ Next
    \/ ex # ExIdle /\ ExecNext

RunOrCallSpec == RunOrCallInit /\ [][RunOrCallNext]_vars

\* the step after a remote command that succeeded
NextStep(kind) ==
    CASE kind = "getToken" -> <<"source", "disconnect">>
      [] kind = "mkdir" -> AfterMkdir
      [] kind = "populateConfig" -> <<"target", "install">>
      [] kind = "install" -> <<"target", "systemd">>
      [] kind = "systemd" -> <<"target", "return">>

\* the step of a run in which a remote command returns with exit status 0
ExitedZero(kind) ==
    /\ pc[2] = kind
    /\ inflight = 1
    /\ inflight' = 0
    /\ log'[Len(log')].op = "exit"
    /\ log'[Len(log')].ok

\* C14: a remote command that exits with status 0 and wrote to standard-error
\* is a success: ExecuteStdio returns no error and the text as StdErr, and
\* the run goes on to the next step with no error, whatever the step and
\* whatever was captured.
C14_ExecutorPart ==
    (/\ ex # ExIdle
     /\ ex.pc = "returned"
     /\ ex.fault = "none"
     /\ ex.exit = 0
     /\ Written(ex.script, "err") # <<>>) =>
       /\ ex.err = NoErr
       /\ ex.res.StdErr = Written(ex.script, "err")

C14_RunPart ==
    \A kind \in EndingKinds \cup {"mkdir"} :
      ExitedZero(kind) =>
        /\ pc' = NextStep(kind)
        /\ ret' = NoErr

C14_StderrIsNotAnError == []C14_ExecutorPart /\ [][C14_RunPart]_vars

\* a finished run without error whose token read and whose install both
\* wrote to standard-error
C14_Witness ==
    /\ Done
    /\ ret = NoErr
    /\ Warned(res)
    /\ Warned(setupRes)

\* the text of a command as the one string that is sent
RECURSIVE Flat(_)
Flat(pieces) == IF pieces = <<>> THEN "" ELSE Head(pieces) \o Flat(Tail(pieces))

\* t occurs in s
Contains(s, t) == \E i \in 1..(Len(s) - Len(t) + 1) : SubSeq(s, i, i + Len(t) - 1) = t

\* the commands of one kind that were sent, as strings
Sent(kind) == {Flat(issued[i].text) : i \in {j \in DOMAIN issued : issued[j].kind = kind}}

\* C15: the role decides the role marker of the install command and the unit
\* that is enabled: in a server run the install command has
\* INSTALL_RKE2_TYPE='server' and rke2-server is enabled, never rke2-agent;
\* in an agent run the install command has no INSTALL_RKE2_TYPE at all and
\* rke2-agent is enabled, never rke2-server.
C15_RoleSelectsMarkerAndUnit ==
    /\ \A c \in Sent("install") :
         /\ Contains(c, "INSTALL_RKE2_TYPE='server'") <=> in.server
         /\ Contains(c, "INSTALL_RKE2_TYPE") <=> in.server
    /\ \A c \in Sent("systemd") :
         /\ Contains(c, "systemctl enable --no-block --now rke2-server") <=> in.server
         /\ Contains(c, "systemctl enable --no-block --now rke2-agent") <=> ~in.server
         /\ Contains(c, "rke2-server") <=> in.server
         /\ Contains(c, "rke2-agent") <=> ~in.server

\* a server run that installed and enabled its unit, and ended without error
C15_Witness ==
    /\ Done
    /\ ret = NoErr
    /\ in.server
    /\ Sent("install") # {}
    /\ Sent("systemd") # {}

\* C16: the install command has exactly one of the assignments
\* INSTALL_RKE2_VERSION and INSTALL_RKE2_CHANNEL: the version, with the
\* version given, whenever a version is given, whatever the channel; the
\* channel, with the channel given, only when no version is given.
C16_VersionWinsOverChannel ==
    \A c \in Sent("install") :
      /\ Contains(c, "INSTALL_RKE2_VERSION") # Contains(c, "INSTALL_RKE2_CHANNEL")
      /\ IF in.rke2Version # ""
         THEN Contains(c, "INSTALL_RKE2_VERSION='" \o in.rke2Version \o "'")
         ELSE Contains(c, "INSTALL_RKE2_CHANNEL='" \o in.rke2Channel \o "'")

\* an install command was sent in a run given both a version and a channel
C16_Witness ==
    /\ Sent("install") # {}
    /\ in.rke2Version # ""
    /\ in.rke2Channel # ""

\* neither a version nor a channel was given
NoSelector == in.rke2Version = "" /\ in.rke2Channel = ""

\* C17: a run given neither a version nor a channel ends with an error and
\* nothing else: no connection to either host is tried or opened, no key is
\* read, no remote command is sent.
C17_NoSelectorRejectedFirst ==
    NoSelector =>
      /\ log = <<>>
      /\ issued = <<>>
      /\ \A h \in Hosts : sess[h] = NoSession /\ keyRes[h] = NoKey
      /\ pc \in {<<"run", "validate">>, <<"run", "return">>, <<"run", "done">>}
      /\ pc # <<"run", "validate">> => ret = NewErr("give a value for --version or --channel")

\* such a run has ended, with its error
C17_Witness == NoSelector /\ Done /\ ret # NoErr

\* the payload the join configuration is claimed to be, for the token read
ClaimedConfig ==
    "server: https://" \o in.serverHost \o ":9345\ntoken: "
      \o Flat(TrimSpace(res.StdOut)) \o "\n"

\* C18 (as claimed): the command that writes the join configuration carries
\* exactly the payload  server: https://<source-host>:9345 \n token: <T> \n
\* with <T> the trimmed standard-output of the token read, and no other
\* character.
C18_ConfigPayloadExact ==
    \A c \in Sent("populateConfig") :
      c = "echo '" \o ClaimedConfig \o "' | " \o sudoPrefix \o " tee -a " \o rke2ConfigFile

\* the step in which Close is called on an operator of h that is closed
SecondClose(h) ==
    /\ sess'[h].closes > sess[h].closes
    /\ sess'[h].closes >= 2

\* C19: a second Close on an operator is tolerated: it is called on an
\* operator that was made (never on nil), it leaves the session closed, and
\* the error the run returns is the one it had before the call.
C19_DoubleCloseStep ==
    \A h \in Hosts :
      SecondClose(h) =>
        /\ sess[h].opens = 1
        /\ ~sess[h].open
        /\ ~sess'[h].open
        /\ ret' = ret

C19_SecondCloseTolerated == [][C19_DoubleCloseStep]_vars

\* a run that ended without error after closing the source session twice
C19_Witness ==
    /\ Done
    /\ ret = NoErr
    /\ sess["source"].closes = 2
    /\ ~sess["source"].open

(***************************************************************************)
(* Properties of a call of ExecuteStdio, continued                         *)
(***************************************************************************)
\* C20 (as claimed): when ExecuteStdio has returned, on whatever path, no
\* drain goroutine it started is still running.
C20_DrainsJoinedOnReturn ==
    (ex # ExIdle /\ ex.pc = "returned") =>
      \A fd \in Fds : ex.drain[fd] # "running"

\* the remote side of a call made something fail
RemoteFailure == ex.fault # "none" \/ ex.exit # 0

RolePieces == {" INSTALL_RKE2_TYPE='server'", "rke2-server", "rke2-agent"}

\* a command without them
Blind(text) == SelectSeq(text, LAMBDA t : t \notin RolePieces)

\* the command of a kind as the setup function of the other role builds it
OtherRoleText(kind) ==
    CASE kind = "install" -> installCommandOf(~in.server)
      [] kind = "systemd" -> ensureSystemdcommandOf(~in.server)
      [] OTHER -> CommandText(kind)

\* the commands sent to the target are, marker and unit apart, those the
\* other role sends
SameCommandsAsOtherRole ==
    \A i \in DOMAIN issued :
      issued[i].host = "target" =>
        Blind(issued[i].text) = Blind(OtherRoleText(issued[i].kind))

\* s is the beginning of t
IsPrefix(s, t) == Len(s) <= Len(t) /\ s = SubSeq(t, 1, Len(s))

\* connect, command, upload and close steps follow the one sequence that
\* mentions no role
SameStepsAsOtherRole == IsPrefix(StepNames(SelectSeq(log, Observable)), ExpectedSteps)

\* the setup function has returned because the dial with the key failed
TargetDialGaveUp ==
    /\ KeyDialFailed("target")
    /\ pc \in {<<"target", "return">>, <<"run", "return">>, <<"run", "done">>}

RemoteConfigs ==
    {<<>>,
     <<"server: https://", "10.0.0.9", ":9345", " ", "\n", "token: ", "K10::old", "\n", "\n">>}

SetupInputs == {i @@ [remoteConfig |-> c] : i \in Inputs, c \in RemoteConfigs}

SetupInit ==
    /\ in \in SetupInputs
    /\ pc = <<"target", "agentOnly">>
    /\ sess = [h \in Hosts |-> NoSession]
    /\ keyRes = [h \in Hosts |-> NoKey]
    /\ initialSSHErr = NoErr
    /\ deferRun = <<>>
    /\ deferSetup = <<>>
    /\ res \in Captures("getToken")      \* joinToken
    /\ setupRes = NoRes
    /\ ret = NoErr
    /\ inflight = 0
    /\ log = <<>>
    /\ issued = <<>>
    /\ ex = ExIdle

SetupNext ==
    \/ AgentOnly("target")
    \/ AgentDial("target")
    \/ LoadKey("target")
    \/ KeyDial("target")
    \/ DeferClose("target")
    \/ \E kind \in Kinds("target") : ExecIssue("target", kind)
    \/ \E kind \in Kinds("target") : ExecReturn("target", kind)
    \/ \E which \in {"Config", "Registries"} : UploadOpen(which)
    \/ \E which \in {"Config", "Registries"} : UploadCopy(which)
    \/ ReturnSetup

SetupSpec == SetupInit /\ [][SetupNext]_vars

SentKinds == {issued[i].kind : i \in DOMAIN issued}

\* C24: every command sent to either host (token read, mkdir, config write,
\* install, service activation) has the elevation prefix "sudo " when
\* elevation was asked for, and has no sudo anywhere in it when it was not.
C24_ElevationOnEveryCommand ==
    \A i \in DOMAIN issued :
      LET c == Flat(issued[i].text) IN
      IF in.useSudo THEN Contains(c, "sudo ") ELSE ~Contains(c, "sudo")

\* a finished run that sent all five commands
C24_Witness ==
    /\ Done
    /\ ret = NoErr
    /\ in.useSudo
    /\ SentKinds = {"getToken", "mkdir", "populateConfig", "install", "systemd"}

(***************************************************************************)
(* makeConfig on its own: called with any host and any trimmed token       *)
(***************************************************************************)
\* source hosts: names, IPv4, and IPv6 literals, which have ':' themselves
ConfigHosts == {"10.0.0.1", "node-1.example.org", "::1", "fe80::1", "[2001:db8::1]", "a"}

\* tokens with nothing to trim, as pieces; some have ':' and blanks inside
ConfigTokens ==
    {<<"K10::server:secret">>, <<"K10", "::", "node", ":", "x">>, <<"t">>,
     <<"a", " ", "b">>, <<"9345">>, <<"token:", " ", "x">>, <<"a", ":9345">>,
     <<"server:", " ", "https://h">>, <<"secret", "=">>}

\* the flags of a call that is no run: only the host is there
ConfigInit ==
    /\ in \in [serverHost : ConfigHosts]
    /\ res \in [StdOut : ConfigTokens, StdErr : {<<>>}]
    /\ pc = <<"config", "make">>
    /\ sess = [h \in Hosts |-> NoSession]
    /\ keyRes = [h \in Hosts |-> NoKey]
    /\ initialSSHErr = NoErr
    /\ deferRun = <<>>
    /\ deferSetup = <<>>
    /\ setupRes = NoRes
    /\ ret = NoErr
    /\ inflight = 0
    /\ log = <<>>
    /\ issued = <<>>
    /\ ex = ExIdle

\* rkeConfig := makeConfig(serverHost, strings.TrimSpace(joinToken))
MakeConfigCall ==
    /\ pc = <<"config", "make">>
    /\ issued' = Append(issued, [host |-> "local", kind |-> "makeConfig",
                                 text |-> makeConfig(in.serverHost, TrimSpace(res.StdOut))])
    /\ pc' = <<"config", "made">>
    /\ UNCHANGED <<in, sess, keyRes, initialSSHErr, deferRun, deferSetup, res, setupRes,
                   ret, inflight, log, ex>>

ConfigNext == MakeConfigCall

ConfigSpec == ConfigInit /\ [][ConfigNext]_vars

\* the documented format:  server: https://<host>:9345 \n token: <T> \n
StartsWith(s, t) == Len(t) <= Len(s) /\ SubSeq(s, 1, Len(t)) = t

EndsWith(s, t) == Len(t) <= Len(s) /\ SubSeq(s, Len(s) - Len(t) + 1, Len(s)) = t

\* where the first line of a payload ends, 0 if it has no newline
FirstNewline(p) ==
    IF Contains(p, "\n")
    THEN CHOOSE i \in 1..Len(p) :
           /\ SubSeq(p, i, i) = "\n"
           /\ \A j \in 1..(i - 1) : SubSeq(p, j, j) # "\n"
    ELSE 0

NoParse == <<>>

\* parse a payload by the documented format: the first line is
\* "server: https://" host ":9345", the second "token: " token, each ended
\* by a newline, and nothing else
ParseConfig(p) ==
    LET nl == FirstNewline(p)
        line1 == SubSeq(p, 1, nl - 1)
        rest == SubSeq(p, nl + 1, Len(p))
    IN IF /\ nl > 0
          /\ StartsWith(line1, "server: https://")
          /\ EndsWith(line1, ":9345")
          /\ Len(line1) >= Len("server: https://") + Len(":9345")
          /\ StartsWith(rest, "token: ")
          /\ EndsWith(rest, "\n")
          /\ Len(rest) >= Len("token: ") + 1
       THEN <<SubSeq(line1, Len("server: https://") + 1, Len(line1) - Len(":9345")),
              SubSeq(rest, Len("token: ") + 1, Len(rest) - 1)>>
       ELSE NoParse

\* C25 (as claimed): the payload makeConfig makes for a host and a trimmed
\* token, parsed by the documented format, gives back that host and token.
C25_ConfigRoundTrip ==
    \A i \in DOMAIN issued :
      issued[i].kind = "makeConfig" =>
        ParseConfig(Flat(issued[i].text)) = <<in.serverHost, Flat(TrimSpace(res.StdOut))>>

(***************************************************************************)
(* The configuration file on the target, as the uploads and the commands   *)
(* sent leave it                                                           *)
(***************************************************************************)
\* what the local file of an upload holds
LocalContent(which) == <<"content of ", UploadFile(which), "\n">>

\* echo '<payload>' | ... : what echo writes, the payload and a newline
Echoed(text) ==
    LET from == CHOOSE i \in DOMAIN text : text[i] = "echo '"
        to == CHOOSE i \in DOMAIN text : text[i] = "' | "
    IN SubSeq(text, from + 1, to - 1) \o <<"\n">>

\* ... | tee -a <file> adds its input at the end of the file, tee <file>
\* replaces the file with it
Tee(text, file) ==
    IF \E i \in DOMAIN text : text[i] = " tee -a " THEN file \o Echoed(text)
    ELSE Echoed(text)

\* the command of a kind that was sent
TextSent(kind) == issued[CHOOSE i \in DOMAIN issued : issued[i].kind = kind].text

\* the file after the first n operations of the log: scp of the caller's
\* file replaces it, the config write that exited 0 did what tee does
RECURSIVE ConfigFileAt(_)
ConfigFileAt(n) ==
    IF n = 0 THEN in.remoteConfig
    ELSE LET e == log[n] IN
         IF e.op = "copy" /\ e.arg = rke2ConfigFile /\ e.ok THEN LocalContent("Config")
         ELSE IF e.op = "exit" /\ e.arg = "populateConfig" /\ e.ok
              THEN Tee(TextSent("populateConfig"), ConfigFileAt(n - 1))
              ELSE ConfigFileAt(n - 1)

\* the config write exited 0 as operation n
ConfigWritten(n) == log[n].op = "exit" /\ log[n].arg = "populateConfig" /\ log[n].ok

\* C26: the config write only appends: what the file held before it, an
\* uploaded caller file or what an earlier join left, is the beginning of
\* the file after it, unchanged, and the payload of this run follows.
C26_ConfigWriteAppends ==
    \A n \in DOMAIN log :
      ConfigWritten(n) =>
        LET before == ConfigFileAt(n - 1)
            after == ConfigFileAt(n)
            payload == makeConfig(in.serverHost, TrimSpace(res.StdOut))
        IN /\ IsPrefix(before, after)
           /\ after = before \o payload \o <<"\n">>

\* the setup function returned without error, having written the config
\* after the upload of the caller's file replaced what an earlier join left
C26_Witness ==
    /\ pc = <<"run", "return">>
    /\ ret = NoErr
    /\ \E n \in DOMAIN log : ConfigWritten(n) /\ ConfigFileAt(n - 1) = LocalContent("Config")
    /\ in.remoteConfig # <<>>

(***************************************************************************)
(* Properties of a call of ExecuteStdio and of the run above it            *)
(***************************************************************************)
\* operation i of the log is a command of this kind that exited with a failure
FailedExit(i, kind) == log[i].op = "exit" /\ log[i].arg = kind /\ ~log[i].ok

\* C27: a call of ExecuteStdio that returns an error returns an empty
\* CommandRes, whatever its drains had copied by then; so the run holds no
\* output of a command that failed, only its error.
C27_ErrorMeansEmptyResult ==
    /\ (ex # ExIdle /\ ex.pc = "returned" /\ ex.err # NoErr) => ex.res = NoRes
    /\ \A i \in DOMAIN log :
         /\ FailedExit(i, "getToken") => res = NoRes /\ ret # NoErr
         /\ FailedExit(i, "install") => setupRes = NoRes /\ ret # NoErr

\* a call returned an error after its drains had copied from both streams
C27_Witness ==
    /\ ex # ExIdle
    /\ ex.pc = "returned"
    /\ ex.err # NoErr
    /\ ex.buf["out"] # <<>>
    /\ ex.buf["err"] # <<>>
    /\ ex.res = NoRes

====
